---- MODULE Spec2Model ----
(***************************************************************************)
(* Octopus: graceful serve / restart / shutdown of an http.Server.         *)
(* A model of GracefulServe, GracefulServeTLS, createListener,             *)
(* importListener, newListener, handleSignals, forkChild, shutDown and     *)
(* createListenerFile, with the part of the Go runtime they rest on (file  *)
(* tables, listening sockets, os.Getenv, http.Server's Serve / Close /      *)
(* Shutdown).                                                              *)
(***************************************************************************)
EXTENDS Integers, Sequences, FiniteSets, TLC

(* ------------------------------ bounds -------------------------------- *)
\* process generations the model can hold (pids 1..MaxProcs, 1 is the root)
MaxProcs == 3
\* signals the operator sends in one run
MaxSignals == 2

(* ------------------------- program constants -------------------------- *)
\* DefaultAwaitTimeout = 5 * time.Second, counted in seconds
DefaultAwaitTimeout == 5
\* make(chan os.Signal, 1024)
SigChanCap == 1024
\* FD: 3 in forkChild's listenerDescriptor
ChildFD == 3

Procs == 1..MaxProcs
Addrs == {"a1", "a2"}
Kinds == {"tcp", "unix"}

\* entries of a process's file table: the standard streams, a closed slot, or
\* a socket id (>= 0)
Stdin == -1
Stdout == -2
Stderr == -3
NoFile == -9
\* socket ids: 0 is a listening socket the root may inherit from its starter,
\* p > 0 is the socket process p bound itself
ExtSock == 0
SockIds == 0..MaxProcs

HUP == "SIGHUP"
USR1 == "SIGUSR1"
USR2 == "SIGUSR2"
INT == "SIGINT"
TERM == "SIGTERM"
sigHooks == {HUP, USR1, USR2, INT, TERM}

\* signals handleSignals does not hook keep what the Go runtime does with them
\* by default: SIGWINCH (as SIGCHLD, SIGURG, ...) is caught and nothing is done,
\* SIGQUIT (as SIGKILL, ...) ends the process
WINCH == "SIGWINCH"
QUIT == "SIGQUIT"
IgnoredByDefault == {WINCH}
FatalByDefault == {QUIT}
Unhooked == IgnoredByDefault \cup FatalByDefault

(* --------------------- the descriptor and its JSON --------------------- *)
\* a JSON text: wf says whether it is a syntactically valid JSON object,
\* members are its key/value pairs in order; a value is a string or a number
Member(k, t, s, n) == [k |-> k, t |-> t, s |-> s, n |-> n]
StrMember(k, s) == Member(k, "str", s, 0)
NumMember(k, n) == Member(k, "num", "", n)
JsonObject(ms) == [wf |-> TRUE, members |-> ms]
Garbage == [wf |-> FALSE, members |-> <<>>]

\* encoding/json matches a key to a field by its tag, ignoring case
FoldKey(k) ==
    CASE k \in {"addr", "Addr", "ADDR"} -> "addr"
      [] k \in {"FD", "fd"} -> "FD"
      [] k \in {"Name", "name"} -> "Name"
      [] OTHER -> "?"

\* json.Marshal(listenerDescriptor{Addr, FD, Name})
Marshal(l) ==
    JsonObject(<<StrMember("addr", l.Addr), NumMember("FD", l.FD),
                 StrMember("Name", l.Name)>>)

ZeroDescriptor == [Addr |-> "", FD |-> 0, Name |-> ""]

\* one member decoded into the descriptor; a value of the wrong JSON type is
\* an error, an unknown key is skipped
RECURSIVE Decode(_, _)
Decode(ms, acc) ==
    IF ms = <<>> THEN acc
    ELSE LET m == Head(ms)
             f == FoldKey(m.k)
             want == IF f = "FD" THEN "num" ELSE "str"
             bad == f # "?" /\ m.t # want
             d == acc.v
             v == CASE f = "addr" /\ ~bad -> [d EXCEPT !.Addr = m.s]
                    [] f = "FD" /\ ~bad -> [d EXCEPT !.FD = m.n]
                    [] f = "Name" /\ ~bad -> [d EXCEPT !.Name = m.s]
                    [] OTHER -> d
         IN Decode(Tail(ms), [err |-> acc.err \/ bad, v |-> v])

\* json.Unmarshal([]byte(env), &fl)
Unmarshal(text) ==
    IF ~text.wf THEN [err |-> TRUE, v |-> ZeroDescriptor]
    ELSE Decode(text.members, [err |-> FALSE, v |-> ZeroDescriptor])

(* ------------------------------- state -------------------------------- *)
VARIABLES
    killMaster,  \* the killMaster argument of GracefulServe(TLS)
    tls,         \* TRUE: the program calls GracefulServeTLS, FALSE: GracefulServe
    pc,          \* pc[p]: where process p's main goroutine is
    addr,        \* srv.Addr
    env,         \* the values of the OCTOPUS_LISTENER entries of p's environment, in order
    files,       \* p's file table: files[p][k + 1] is descriptor slot k
    skind,       \* skind[s]: network of socket s
    saddr,       \* saddr[s]: address socket s is bound to ("" if s does not exist)
    lsock,       \* srv.Listener: the socket it wraps (NoFile if nil)
    lopen,       \* srv.Listener is not closed
    dupf,        \* forkChild holds f, the duplicate of the listener's descriptor
    engine,      \* the goroutine Server.Serve(TLS): none, spawned, serving, closed
    inShutdown,  \* http.Server's inShutdown flag (set by Close and Shutdown)
    inflight,    \* Server.Shutdown is waiting for connections still in flight
    elapsed,     \* seconds since shutDown created its context
    sigChan,     \* sigChan of handleSignals
    cur,         \* the signal handleSignals is processing
    shutErr,     \* what shutDown returned: "", "nil" or "deadline"
    nsent,       \* signals the operator has sent so far
    hist,        \* bookkeeping of what each process did (read by the properties only)
    tally        \* per process: signals sent to it and forkChild calls it made, in all

vars == <<killMaster, tls, pc, addr, env, files, skind, saddr, lsock, lopen, dupf,
          engine, inShutdown, inflight, elapsed, sigChan, cur, shutErr, nsent, hist,
          tally>>

NoSig == ""

\* hist[p]: calls of newListener, listeners importListener made and its error
\* (until the engine is started); forkChild and shutDown calls made for the
\* signal in cur[p], forkChild's error and the child it started (until the
\* dispatcher is back at the channel)
NoHist == [newCalls |-> 0, imports |-> 0, impErr |-> "", nFork |-> 0, nShut |-> 0,
           forkErr |-> "", child |-> 0]

\* tally[p]: user-signal-1 deliveries to p, whether any other signal was sent to
\* it, its calls of forkChild, and whether a forkChild called for a user signal
\* has sent the process its own terminate, over the life of the process
NoTally == [usr1 |-> 0, other |-> FALSE, forks |-> 0, selfTerm |-> FALSE]

\* a process exists and has not exited
Alive(p) == pc[p] \notin {"none", "exited", "fatal", "killed"}

\* descriptor slot k of a file table
Slot(ft, k) == IF k >= 0 /\ k + 1 <= Len(ft) THEN ft[k + 1] ELSE NoFile

\* File.Close() on the file of slot k
CloseSlot(ft, k) ==
    IF k >= 0 /\ k + 1 <= Len(ft) THEN [ft EXCEPT ![k + 1] = NoFile] ELSE ft

\* process p holds an open descriptor of socket s
Holds(p, s) ==
    /\ Alive(p)
    /\ \/ lsock[p] = s /\ lopen[p]
       \/ lsock[p] = s /\ dupf[p]
       \/ \E i \in DOMAIN files[p] : files[p][i] = s

\* some process keeps a socket bound to address a
InUse(a) == \E s \in SockIds : saddr[s] = a /\ \E p \in Procs : Holds(p, s)

\* os.Getenv(DefaultEnvVar): the first entry of that name wins, "" if there is none
Getenv(p) == IF env[p] = <<>> THEN Garbage ELSE Head(env[p])
EnvSet(p) == env[p] # <<>>

\* os.Environ(): the environment as package syscall keeps it once it has been
\* read: of several entries of one name only the first is left
Environ(p) == IF env[p] = <<>> THEN <<>> ELSE <<Head(env[p])>>


(* ------------------------- Listener Acquisition ------------------------ *)
\* importListener without the comparison of the descriptor's address with srv.Addr
importListener_NoAddrCheck(p, text) ==
    LET u == Unmarshal(text)
        fl == u.v
        f == Slot(files[p], fl.FD)
    IN  IF u.err THEN [err |-> "unmarshal", l |-> NoFile, ft |-> files[p]]
        ELSE IF fl.FD < 0 THEN [err |-> "newfile", l |-> NoFile, ft |-> files[p]]
        ELSE IF f < 0
             THEN [err |-> "filelistener", l |-> NoFile, ft |-> CloseSlot(files[p], fl.FD)]
             ELSE [err |-> "", l |-> f, ft |-> CloseSlot(files[p], fl.FD)]

\* importListener(env): the error ("" for nil), the listener it sets and the file
\* table it leaves. os.NewFile gives nil for a negative descriptor;
\* net.FileListener duplicates the descriptor of a socket and fails on anything
\* else; the deferred f.Close() closes the slot once os.NewFile has wrapped it.
importListener(p, text) ==
    LET u == Unmarshal(text)
        fl == u.v
        f == Slot(files[p], fl.FD)
    IN  IF u.err THEN [err |-> "unmarshal", l |-> NoFile, ft |-> files[p]]
        ELSE IF fl.Addr # addr[p] THEN [err |-> "addr", l |-> NoFile, ft |-> files[p]]
        ELSE IF fl.FD < 0 THEN [err |-> "newfile", l |-> NoFile, ft |-> files[p]]
        ELSE IF f < 0
             THEN [err |-> "filelistener", l |-> NoFile, ft |-> CloseSlot(files[p], fl.FD)]
             ELSE [err |-> "", l |-> f, ft |-> CloseSlot(files[p], fl.FD)]

\* net.Listen(DefaultNetwork, srv.Addr) succeeds when the OS lets it (bindOk) and
\* no open socket is bound to the address
newListener(p, bindOk) == bindOk /\ ~InUse(addr[p])

\* GracefulServe / GracefulServeTLS up to the check of createListener's error:
\* createListener imports the listener the environment describes or makes a new
\* one; log.Fatalf ends the process when it returns an error.
Start(p) ==
    /\ pc[p] = "start"
    /\ LET imp == IF EnvSet(p) THEN importListener(p, Getenv(p))
                  ELSE [err |-> "unset", l |-> NoFile, ft |-> files[p]]
       IN  IF imp.err = ""
           THEN /\ lsock' = [lsock EXCEPT ![p] = imp.l]
                /\ lopen' = [lopen EXCEPT ![p] = TRUE]
                /\ files' = [files EXCEPT ![p] = imp.ft]
                /\ pc' = [pc EXCEPT ![p] = "serve"]
                /\ hist' = [hist EXCEPT ![p].imports = @ + 1, ![p].impErr = "nil"]
                /\ UNCHANGED <<saddr, skind, addr, env>>
           ELSE \E bindOk \in BOOLEAN :
                /\ hist' = [hist EXCEPT ![p].newCalls = @ + 1, ![p].impErr = imp.err]
                /\ IF newListener(p, bindOk)
                   THEN /\ lsock' = [lsock EXCEPT ![p] = p]
                        /\ lopen' = [lopen EXCEPT ![p] = TRUE]
                        /\ saddr' = [saddr EXCEPT ![p] = addr[p]]
                        /\ skind' = [skind EXCEPT ![p] = "tcp"]
                        /\ files' = [files EXCEPT ![p] = imp.ft]
                        /\ pc' = [pc EXCEPT ![p] = "serve"]
                        /\ UNCHANGED <<addr, env>>
                   ELSE /\ pc' = [pc EXCEPT ![p] = "fatal"]
                        /\ addr' = [addr EXCEPT ![p] = ""]
                        /\ env' = [env EXCEPT ![p] = <<>>]
                        /\ files' = [files EXCEPT ![p] = <<>>]
                        /\ UNCHANGED <<lsock, lopen, saddr, skind>>
    /\ UNCHANGED <<killMaster, tls, dupf, engine, inShutdown, inflight,
                   elapsed, sigChan, cur, shutErr, nsent>>

(* ----------------------------- the engine ------------------------------ *)
\* GoServe of a GracefulServe that logs createListener's error and goes on
\* (log.Printf for log.Fatalf)
GoServe_AfterFatal(p) ==
    /\ pc[p] \in {"serve", "fatal"}
    /\ engine' = [engine EXCEPT ![p] = "spawned"]
    /\ pc' = [pc EXCEPT ![p] = IF tls THEN "close" ELSE "wait"]
    /\ hist' = [hist EXCEPT ![p] = NoHist]
    /\ UNCHANGED <<killMaster, tls, addr, env, files, skind, saddr, lsock, lopen, dupf,
                   inShutdown, inflight, elapsed, sigChan, cur, shutErr, nsent>>

\* go srv.Server.Serve(srv.Listener) / go srv.Server.ServeTLS(...): the goroutine
\* is created; GracefulServe goes on to handleSignals (signal.Notify),
\* GracefulServeTLS to server.Close()
GoServe(p) ==
    /\ pc[p] = "serve"
    /\ engine' = [engine EXCEPT ![p] = "spawned"]
    /\ pc' = [pc EXCEPT ![p] = IF tls THEN "close" ELSE "wait"]
    /\ hist' = [hist EXCEPT ![p] = NoHist]
    /\ UNCHANGED <<killMaster, tls, addr, env, files, skind, saddr, lsock, lopen, dupf,
                   inShutdown, inflight, elapsed, sigChan, cur, shutErr, nsent>>

\* http.Server.Close(): sets inShutdown, closes the listeners Serve has tracked
\* (Serve then returns ErrServerClosed) and every connection: none is left in
\* flight
ServerClose(p) ==
    /\ inShutdown' = [inShutdown EXCEPT ![p] = TRUE]
    /\ IF engine[p] = "serving"
       THEN /\ engine' = [engine EXCEPT ![p] = "closed"]
            /\ lopen' = [lopen EXCEPT ![p] = FALSE]
       ELSE UNCHANGED <<engine, lopen>>

\* GracefulServeTLS: server.Close() right after the go statement, then
\* handleSignals
CloseAfterServe(p) ==
    /\ pc[p] = "close"
    /\ ServerClose(p)
    /\ pc' = [pc EXCEPT ![p] = "wait"]
    /\ UNCHANGED <<killMaster, tls, addr, env, files, skind, saddr, lsock, dupf,
                   inflight, elapsed, sigChan, cur, shutErr, nsent, hist>>

\* the goroutine runs Server.Serve: it tracks the listener and accepts, unless
\* the server is already shutting down: then it returns ErrServerClosed and its
\* deferred l.Close() closes the listener
EngineRun(p) ==
    /\ Alive(p)
    /\ engine[p] = "spawned"
    /\ IF inShutdown[p]
       THEN /\ engine' = [engine EXCEPT ![p] = "closed"]
            /\ lopen' = [lopen EXCEPT ![p] = FALSE]
       ELSE /\ engine' = [engine EXCEPT ![p] = "serving"]
            /\ UNCHANGED lopen
    /\ UNCHANGED <<killMaster, tls, pc, addr, env, files, skind, saddr, lsock, dupf,
                   inShutdown, inflight, elapsed, sigChan, cur, shutErr, nsent, hist>>

\* the work of the connections in flight ends: the engine is idle
Finish(p) ==
    /\ Alive(p)
    /\ inflight[p]
    /\ inflight' = [inflight EXCEPT ![p] = FALSE]
    /\ UNCHANGED <<killMaster, tls, pc, addr, env, files, skind, saddr, lsock, lopen,
                   dupf, engine, inShutdown, elapsed, sigChan, cur, shutErr, nsent, hist>>

(* ------------------------- the signal dispatcher ----------------------- *)
\* the main goroutine is inside handleSignals: signal.Notify has registered sigChan
InLoop(p) == pc[p] \in {"wait", "fork", "exec", "forkret", "shutdown", "drain"}

\* Enqueue of a signal.Notify(sigChan) that names no signal: all are relayed
Enqueue_All(q, sig) ==
    IF Len(q) < SigChanCap THEN Append(q, sig) ELSE q

\* Enqueue that merges a signal with one of its kind already pending (as the
\* kernel does for signals not yet delivered)
Enqueue_Merge(q, sig) ==
    IF sig \in sigHooks /\ Len(q) < SigChanCap /\ \A i \in DOMAIN q : q[i] # sig
    THEN Append(q, sig) ELSE q

\* package os/signal hands a hooked signal to the channel without blocking: it is
\* dropped when the channel is full
Enqueue(q, sig) ==
    IF sig \in sigHooks /\ Len(q) < SigChanCap THEN Append(q, sig) ELSE q

\* the operator sends a signal to process p (kill -SIG <pid>) that the runtime
\* hands to package os/signal: a hooked one or one it ignores by default
Deliver(p, sig) ==
    /\ InLoop(p)
    /\ nsent < MaxSignals
    /\ nsent' = nsent + 1
    /\ sigChan' = [sigChan EXCEPT ![p] = Enqueue(@, sig)]
    /\ UNCHANGED <<killMaster, tls, pc, addr, env, files, skind, saddr, lsock, lopen,
                   dupf, engine, inShutdown, inflight, elapsed, cur, shutErr, hist>>

\* the operator sends process p a signal that is not hooked and whose default
\* action ends the process: it is gone at once, with all it held
Kill(p, sig) ==
    /\ InLoop(p)
    /\ sig \in FatalByDefault
    /\ nsent < MaxSignals
    /\ nsent' = nsent + 1
    /\ pc' = [pc EXCEPT ![p] = "killed"]
    /\ addr' = [addr EXCEPT ![p] = ""]
    /\ env' = [env EXCEPT ![p] = <<>>]
    /\ files' = [files EXCEPT ![p] = <<>>]
    /\ lsock' = [lsock EXCEPT ![p] = NoFile]
    /\ lopen' = [lopen EXCEPT ![p] = FALSE]
    /\ dupf' = [dupf EXCEPT ![p] = FALSE]
    /\ engine' = [engine EXCEPT ![p] = "none"]
    /\ inShutdown' = [inShutdown EXCEPT ![p] = FALSE]
    /\ inflight' = [inflight EXCEPT ![p] = FALSE]
    /\ elapsed' = [elapsed EXCEPT ![p] = 0]
    /\ sigChan' = [sigChan EXCEPT ![p] = <<>>]
    /\ cur' = [cur EXCEPT ![p] = NoSig]
    /\ hist' = [hist EXCEPT ![p] = NoHist]
    /\ UNCHANGED <<killMaster, tls, skind, saddr, shutErr>>

\* Dispatch with SIGINT handled as SIGHUP is (a fork first)
Dispatch_IntForks(sig) ==
    CASE sig \in {HUP, INT} -> "fork"
      [] sig \in {USR1, USR2} -> "fork"
      [] sig = TERM -> "shutdown"
      [] OTHER -> "wait"

\* the switch of handleSignals: the call the signal leads to first
Dispatch(sig) ==
    CASE sig = HUP -> "fork"
      [] sig \in {USR1, USR2} -> "fork"
      [] sig \in {INT, TERM} -> "shutdown"
      [] OTHER -> "wait"

\* Receive taking the newest signal of the channel instead of the oldest
Receive_Lifo(p) ==
    /\ pc[p] = "wait"
    /\ sigChan[p] # <<>>
    /\ cur' = [cur EXCEPT ![p] = sigChan[p][Len(sigChan[p])]]
    /\ pc' = [pc EXCEPT ![p] = Dispatch(sigChan[p][Len(sigChan[p])])]
    /\ sigChan' = [sigChan EXCEPT ![p] = SubSeq(@, 1, Len(@) - 1)]
    /\ UNCHANGED <<killMaster, tls, addr, env, files, skind, saddr, lsock, lopen, dupf,
                   engine, inShutdown, inflight, elapsed, shutErr, nsent, hist>>

\* sig := <-sigChan and the switch on it
Receive(p) ==
    /\ pc[p] = "wait"
    /\ sigChan[p] # <<>>
    /\ cur' = [cur EXCEPT ![p] = Head(sigChan[p])]
    /\ pc' = [pc EXCEPT ![p] = Dispatch(Head(sigChan[p]))]
    /\ sigChan' = [sigChan EXCEPT ![p] = Tail(@)]
    /\ UNCHANGED <<killMaster, tls, addr, env, files, skind, saddr, lsock, lopen, dupf,
                   engine, inShutdown, inflight, elapsed, shutErr, nsent, hist>>

(* ------------------------------ forkChild ------------------------------ *)
\* createListenerFile(l): File() of a TCP or unix listener duplicates its
\* descriptor; it fails on a closed listener or when the OS refuses the dup
\* (dupOk); any other listener type is unsupported
createListenerFile(p, dupOk) ==
    IF lsock[p] \in SockIds /\ skind[lsock[p]] \in {"tcp", "unix"}
    THEN IF lopen[p] /\ dupOk THEN "nil" ELSE "file"
    ELSE "unsupported"

\* forkChild up to the check of createListenerFile's error: on nil it holds f
ForkBegin(p) ==
    /\ pc[p] = "fork"
    /\ \E dupOk \in BOOLEAN :
         LET err == createListenerFile(p, dupOk)
         IN  IF err = "nil"
             THEN /\ dupf' = [dupf EXCEPT ![p] = TRUE]
                  /\ pc' = [pc EXCEPT ![p] = "exec"]
                  /\ hist' = [hist EXCEPT ![p].nFork = @ + 1]
             ELSE /\ pc' = [pc EXCEPT ![p] = "forkret"]
                  /\ hist' = [hist EXCEPT ![p].nFork = @ + 1, ![p].forkErr = err]
                  /\ UNCHANGED dupf
    /\ UNCHANGED <<killMaster, tls, addr, env, files, skind, saddr, lsock, lopen,
                   engine, inShutdown, inflight, elapsed, sigChan, cur, shutErr, nsent>>

\* f.Name(): the name the net package gives the duplicate, here its network
FileName(p) == skind[lsock[p]]

\* l := listenerDescriptor{Addr: srv.Addr, FD: 3, Name: f.Name()}
ChildDescriptor(p) == [Addr |-> addr[p], FD |-> ChildFD, Name |-> FileName(p)]

\* ChildFiles without os.Stderr: f lands in slot 2
ChildFiles_NoStderr(p) == <<Stdin, Stdout, lsock[p]>>

\* files := []*os.File{os.Stdin, os.Stdout, os.Stderr, f}
ChildFiles(p) == <<Stdin, Stdout, Stderr, lsock[p]>>

\* environment := append(os.Environ(), "OCTOPUS_LISTENER=" + env)
ChildEnv(p) == Append(Environ(p), Marshal(ChildDescriptor(p)))

\* the pid the OS gives the next process
FreePids == {c \in Procs : pc[c] = "none"}
NextPid == CHOOSE c \in FreePids : \A d \in FreePids : c <= d

\* ForkExec that closes f only when the child was started (no deferred f.Close())
ForkExec_LeakOnError(p) ==
    /\ pc[p] = "exec"
    /\ \E out \in {"executable", "startprocess", "nil"}, a \in Addrs, killOk \in BOOLEAN :
         IF out # "nil"
         THEN /\ pc' = [pc EXCEPT ![p] = "forkret"]
              /\ hist' = [hist EXCEPT ![p].forkErr = out]
              /\ UNCHANGED <<addr, env, files, sigChan, dupf>>
         ELSE /\ FreePids # {}
              /\ dupf' = [dupf EXCEPT ![p] = FALSE]
              /\ LET c == NextPid
                 IN  /\ pc' = [pc EXCEPT ![p] = "forkret", ![c] = "start"]
                     /\ addr' = [addr EXCEPT ![c] = a]
                     /\ env' = [env EXCEPT ![c] = ChildEnv(p)]
                     /\ files' = [files EXCEPT ![c] = ChildFiles(p)]
                     /\ sigChan' = [sigChan EXCEPT
                                      ![p] = IF killMaster /\ killOk THEN Enqueue(@, TERM) ELSE @]
                     /\ hist' = [hist EXCEPT
                                   ![p].forkErr = IF killMaster /\ ~killOk THEN "kill" ELSE "nil",
                                   ![p].child = c]
    /\ UNCHANGED <<killMaster, tls, skind, saddr, lsock, lopen, engine, inShutdown,
                   inflight, elapsed, cur, shutErr, nsent>>

\* ForkExec of a forkChild that reports the master killed without sending the
\* terminate
ForkExec_NoSelfTerm(p) ==
    /\ pc[p] = "exec"
    /\ dupf' = [dupf EXCEPT ![p] = FALSE]
    /\ \E out \in {"executable", "startprocess", "nil"}, a \in Addrs, killOk \in BOOLEAN :
         IF out # "nil"
         THEN /\ pc' = [pc EXCEPT ![p] = "forkret"]
              /\ hist' = [hist EXCEPT ![p].forkErr = out]
              /\ UNCHANGED <<addr, env, files, sigChan>>
         ELSE /\ FreePids # {}
              /\ LET c == NextPid
                 IN  /\ pc' = [pc EXCEPT ![p] = "forkret", ![c] = "start"]
                     /\ addr' = [addr EXCEPT ![c] = a]
                     /\ env' = [env EXCEPT ![c] = ChildEnv(p)]
                     /\ files' = [files EXCEPT ![c] = ChildFiles(p)]
                     /\ UNCHANGED sigChan
                     /\ hist' = [hist EXCEPT
                                   ![p].forkErr = IF killMaster /\ ~killOk THEN "kill" ELSE "nil",
                                   ![p].child = c]
    /\ UNCHANGED <<killMaster, tls, skind, saddr, lsock, lopen, engine, inShutdown,
                   inflight, elapsed, cur, shutErr, nsent>>

\* forkChild from json.Marshal to its return; the deferred f.Close() closes f.
\* os.Executable or os.StartProcess may fail. The child runs the same
\* executable with no arguments: its address a is what that program configures.
\* With killMaster the master sends SIGTERM to its own pid (mpid), which
\* signal.Notify puts on its own sigChan; if the kill fails forkChild returns
\* an error.
ForkExec(p) ==
    /\ pc[p] = "exec"
    /\ dupf' = [dupf EXCEPT ![p] = FALSE]
    /\ \E out \in {"executable", "startprocess", "nil"}, a \in Addrs, killOk \in BOOLEAN :
         IF out # "nil"
         THEN /\ pc' = [pc EXCEPT ![p] = "forkret"]
              /\ hist' = [hist EXCEPT ![p].forkErr = out]
              /\ UNCHANGED <<addr, env, files, sigChan>>
         ELSE /\ FreePids # {}
              /\ LET c == NextPid
                 IN  /\ pc' = [pc EXCEPT ![p] = "forkret", ![c] = "start"]
                     /\ addr' = [addr EXCEPT ![c] = a]
                     /\ env' = [env EXCEPT ![c] = ChildEnv(p)]
                     /\ files' = [files EXCEPT ![c] = ChildFiles(p)]
                     /\ sigChan' = [sigChan EXCEPT
                                      ![p] = IF killMaster /\ killOk THEN Enqueue(@, TERM) ELSE @]
                     /\ hist' = [hist EXCEPT
                                   ![p].forkErr = IF killMaster /\ ~killOk THEN "kill" ELSE "nil",
                                   ![p].child = c]
    /\ UNCHANGED <<killMaster, tls, skind, saddr, lsock, lopen, engine, inShutdown,
                   inflight, elapsed, cur, shutErr, nsent>>

\* ForkReturn that calls forkChild again when it failed on a SIGHUP
ForkReturn_Retry(p) ==
    /\ pc[p] = "forkret"
    /\ IF hist[p].forkErr = "nil" /\ cur[p] = HUP
       THEN /\ pc' = [pc EXCEPT ![p] = "shutdown"]
            /\ UNCHANGED <<cur, hist>>
       ELSE IF cur[p] = HUP
       THEN /\ pc' = [pc EXCEPT ![p] = "fork"]
            /\ UNCHANGED <<cur, hist>>
       ELSE /\ pc' = [pc EXCEPT ![p] = "wait"]
            /\ cur' = [cur EXCEPT ![p] = NoSig]
            /\ hist' = [hist EXCEPT ![p] = NoHist]
    /\ UNCHANGED <<killMaster, tls, addr, env, files, skind, saddr, lsock, lopen, dupf,
                   engine, inShutdown, inflight, elapsed, sigChan, shutErr, nsent>>

\* ForkReturn that goes on to shutDown after a SIGHUP whatever forkChild returned
ForkReturn_VacateOnError(p) ==
    /\ pc[p] = "forkret"
    /\ IF cur[p] = HUP
       THEN /\ pc' = [pc EXCEPT ![p] = "shutdown"]
            /\ UNCHANGED <<cur, hist>>
       ELSE /\ pc' = [pc EXCEPT ![p] = "wait"]
            /\ cur' = [cur EXCEPT ![p] = NoSig]
            /\ hist' = [hist EXCEPT ![p] = NoHist]
    /\ UNCHANGED <<killMaster, tls, addr, env, files, skind, saddr, lsock, lopen, dupf,
                   engine, inShutdown, inflight, elapsed, sigChan, shutErr, nsent>>

\* ForkReturn that goes on to shutDown after every successful fork
ForkReturn_AlwaysShutdown(p) ==
    /\ pc[p] = "forkret"
    /\ IF hist[p].forkErr = "nil"
       THEN /\ pc' = [pc EXCEPT ![p] = "shutdown"]
            /\ UNCHANGED <<cur, hist>>
       ELSE /\ pc' = [pc EXCEPT ![p] = "wait"]
            /\ cur' = [cur EXCEPT ![p] = NoSig]
            /\ hist' = [hist EXCEPT ![p] = NoHist]
    /\ UNCHANGED <<killMaster, tls, addr, env, files, skind, saddr, lsock, lopen, dupf,
                   engine, inShutdown, inflight, elapsed, sigChan, shutErr, nsent>>

\* ForkReturn that takes a fork whose child was started for a success, whatever
\* the kill of the master returned
ForkReturn_KillErrIgnored(p) ==
    /\ pc[p] = "forkret"
    /\ IF hist[p].forkErr \in {"nil", "kill"} /\ cur[p] = HUP
       THEN /\ pc' = [pc EXCEPT ![p] = "shutdown"]
            /\ UNCHANGED <<cur, hist>>
       ELSE /\ pc' = [pc EXCEPT ![p] = "wait"]
            /\ cur' = [cur EXCEPT ![p] = NoSig]
            /\ hist' = [hist EXCEPT ![p] = NoHist]
    /\ UNCHANGED <<killMaster, tls, addr, env, files, skind, saddr, lsock, lopen, dupf,
                   engine, inShutdown, inflight, elapsed, sigChan, shutErr, nsent>>

\* handleSignals after forkChild has returned: on an error it logs and continues
\* the loop; on nil, SIGHUP goes on to shutDown, SIGUSR1 and SIGUSR2 fall out of
\* the switch into the next iteration
ForkReturn(p) ==
    /\ pc[p] = "forkret"
    /\ IF hist[p].forkErr = "nil" /\ cur[p] = HUP
       THEN /\ pc' = [pc EXCEPT ![p] = "shutdown"]
            /\ UNCHANGED <<cur, hist>>
       ELSE /\ pc' = [pc EXCEPT ![p] = "wait"]
            /\ cur' = [cur EXCEPT ![p] = NoSig]
            /\ hist' = [hist EXCEPT ![p] = NoHist]
    /\ UNCHANGED <<killMaster, tls, addr, env, files, skind, saddr, lsock, lopen, dupf,
                   engine, inShutdown, inflight, elapsed, sigChan, shutErr, nsent>>

(* ------------------------------- shutDown ------------------------------ *)
\* what the engine has accepted and not finished when it is asked to stop: an
\* engine that is accepting on an open listener may have connections in flight
\* or be idle, one that is not has none
Accepted(p) == IF engine[p] = "serving" /\ lopen[p] THEN BOOLEAN ELSE {FALSE}

\* shutDown: the context with its deadline is created and Server.Shutdown
\* starts: it sets inShutdown, closes the listeners Serve has tracked and finds
\* the connections in flight
ShutBegin(p) ==
    /\ pc[p] = "shutdown"
    /\ pc' = [pc EXCEPT ![p] = "drain"]
    /\ elapsed' = [elapsed EXCEPT ![p] = 0]
    /\ inShutdown' = [inShutdown EXCEPT ![p] = TRUE]
    /\ IF engine[p] = "serving"
       THEN /\ engine' = [engine EXCEPT ![p] = "closed"]
            /\ lopen' = [lopen EXCEPT ![p] = FALSE]
       ELSE UNCHANGED <<engine, lopen>>
    /\ inflight' \in {[inflight EXCEPT ![p] = b] : b \in Accepted(p)}
    /\ hist' = [hist EXCEPT ![p].nShut = @ + 1]
    /\ UNCHANGED <<killMaster, tls, addr, env, files, skind, saddr, lsock, dupf,
                   sigChan, cur, shutErr, nsent>>

\* a second passes while Server.Shutdown waits for connections still in flight
Tick(p) ==
    /\ pc[p] = "drain"
    /\ inflight[p]
    /\ elapsed[p] + 1 < DefaultAwaitTimeout
    /\ elapsed' = [elapsed EXCEPT ![p] = @ + 1]
    /\ UNCHANGED <<killMaster, tls, pc, addr, env, files, skind, saddr, lsock, lopen,
                   dupf, engine, inShutdown, inflight, sigChan, cur, shutErr, nsent, hist>>

\* shutDown returns err to handleSignals, which returns it to GracefulServe(TLS),
\* which logs and returns or exits: the generation is over, the process and all
\* it held (descriptors, connections in flight, the signal channel) are gone
Exit(p, err) ==
    /\ pc' = [pc EXCEPT ![p] = "exited"]
    /\ shutErr' = [shutErr EXCEPT ![p] = err]
    /\ addr' = [addr EXCEPT ![p] = ""]
    /\ env' = [env EXCEPT ![p] = <<>>]
    /\ files' = [files EXCEPT ![p] = <<>>]
    /\ lsock' = [lsock EXCEPT ![p] = NoFile]
    /\ lopen' = [lopen EXCEPT ![p] = FALSE]
    /\ engine' = [engine EXCEPT ![p] = "none"]
    /\ inShutdown' = [inShutdown EXCEPT ![p] = FALSE]
    /\ inflight' = [inflight EXCEPT ![p] = FALSE]
    /\ elapsed' = [elapsed EXCEPT ![p] = 0]
    /\ sigChan' = [sigChan EXCEPT ![p] = <<>>]
    /\ cur' = [cur EXCEPT ![p] = NoSig]
    /\ hist' = [hist EXCEPT ![p] = NoHist]
    /\ UNCHANGED <<killMaster, tls, skind, saddr, dupf, nsent>>

\* ShutOk of a handleSignals that calls srv.shutDown() without returning its
\* result: after a nil the loop goes on
ShutOk_BackToLoop(p) ==
    /\ pc[p] = "drain"
    /\ ~inflight[p]
    /\ pc' = [pc EXCEPT ![p] = "wait"]
    /\ cur' = [cur EXCEPT ![p] = NoSig]
    /\ hist' = [hist EXCEPT ![p] = NoHist]
    /\ UNCHANGED <<killMaster, tls, addr, env, files, skind, saddr, lsock, lopen, dupf,
                   engine, inShutdown, inflight, elapsed, sigChan, shutErr, nsent>>

\* Server.Shutdown finds no connection in flight and returns nil
ShutOk(p) ==
    /\ pc[p] = "drain"
    /\ ~inflight[p]
    /\ Exit(p, "nil")

\* ShutDeadline of a shutDown whose context has no deadline: it never fires
ShutDeadline_NoDeadline(p) ==
    /\ pc[p] = "drain"
    /\ inflight[p]
    /\ elapsed[p] + 1 = DefaultAwaitTimeout
    /\ FALSE
    /\ Exit(p, "deadline")

\* the context's deadline passes with connections still in flight:
\* Server.Shutdown returns context.DeadlineExceeded
ShutDeadline(p) ==
    /\ pc[p] = "drain"
    /\ inflight[p]
    /\ elapsed[p] + 1 = DefaultAwaitTimeout
    /\ Exit(p, "deadline")

(* --------------------------- the specification ------------------------- *)
StdFiles == <<Stdin, Stdout, Stderr>>

\* the states of a root process before createListener: its address, what its
\* starter put in OCTOPUS_LISTENER, and its file table: started by a shell
\* (three standard streams) or by a starter that left listening socket ExtSock
\* (bound to sa, of network sk) in slot 3
RootBoot(a, e, ext, sa, sk) ==
    /\ addr = [p \in Procs |-> IF p = 1 THEN a ELSE ""]
    /\ env = [p \in Procs |-> IF p = 1 THEN e ELSE <<>>]
    /\ files = [p \in Procs |-> IF p = 1
                                THEN (IF ext THEN Append(StdFiles, ExtSock) ELSE StdFiles)
                                ELSE <<>>]
    /\ saddr = [s \in SockIds |-> IF ext /\ s = ExtSock THEN sa ELSE ""]
    /\ skind = [s \in SockIds |-> IF ext /\ s = ExtSock THEN sk ELSE "tcp"]

\* everything but the root's inputs
InitRest ==
    /\ killMaster \in BOOLEAN
    /\ tls \in BOOLEAN
    /\ pc = [p \in Procs |-> IF p = 1 THEN "start" ELSE "none"]
    /\ lsock = [p \in Procs |-> NoFile]
    /\ lopen = [p \in Procs |-> FALSE]
    /\ dupf = [p \in Procs |-> FALSE]
    /\ engine = [p \in Procs |-> "none"]
    /\ inShutdown = [p \in Procs |-> FALSE]
    /\ inflight = [p \in Procs |-> FALSE]
    /\ elapsed = [p \in Procs |-> 0]
    /\ sigChan = [p \in Procs |-> <<>>]
    /\ cur = [p \in Procs |-> NoSig]
    /\ shutErr = [p \in Procs |-> ""]
    /\ nsent = 0
    /\ hist = [p \in Procs |-> NoHist]
    /\ tally = [p \in Procs |-> NoTally]

\* the root is started on address a1, by a shell with no OCTOPUS_LISTENER or by
\* a starter that left a TCP listening socket in slot 3 and its descriptor in
\* the variable
Init ==
    /\ InitRest
    /\ \/ RootBoot("a1", <<>>, FALSE, "", "tcp")
       \/ RootBoot("a1", <<Marshal([Addr |-> "a1", FD |-> ChildFD, Name |-> "tcp"])>>,
                   TRUE, "a1", "tcp")

\* the tally after signal sig was sent to p
Sent(p, sig) ==
    IF sig = USR1 THEN [tally EXCEPT ![p].usr1 = @ + 1]
    ELSE [tally EXCEPT ![p].other = TRUE]

\* forkChild, called for a user signal, has started a child and killed the
\* master in this step: syscall.Kill(mpid, SIGTERM) returned nil
SelfTermSent(p) ==
    /\ killMaster /\ cur[p] \in {USR1, USR2}
    /\ hist'[p].child # 0 /\ hist'[p].forkErr = "nil"

\* the steps that change the tally: forkChild entered, forkChild past
\* os.StartProcess, the process gone
ForkBeginStep(p) == ForkBegin(p) /\ tally' = [tally EXCEPT ![p].forks = @ + 1]
ForkExecStep(p) ==
    ForkExec(p) /\ tally' = [tally EXCEPT ![p].selfTerm = @ \/ SelfTermSent(p)]
ExitStep(p) == (ShutOk(p) \/ ShutDeadline(p)) /\ tally' = [tally EXCEPT ![p] = NoTally]

\* one step of process p, with the tally kept
Step(p) ==
    \/ Start(p) /\ UNCHANGED tally
    \/ GoServe(p) /\ UNCHANGED tally
    \/ CloseAfterServe(p) /\ UNCHANGED tally
    \/ EngineRun(p) /\ UNCHANGED tally
    \/ Finish(p) /\ UNCHANGED tally
    \/ \E sig \in sigHooks : Deliver(p, sig) /\ tally' = Sent(p, sig)
    \/ Receive(p) /\ UNCHANGED tally
    \/ ForkBeginStep(p)
    \/ ForkExecStep(p)
    \/ ForkReturn(p) /\ UNCHANGED tally
    \/ ShutBegin(p) /\ UNCHANGED tally
    \/ Tick(p) /\ UNCHANGED tally
    \/ ExitStep(p)

Next == \E p \in Procs : Step(p)

Spec == Init /\ [][Next]_vars

\* one generation followed through its life: the root runs and is sent signals,
\* the children it starts exist (they hold what they inherit) but are not run
NextMaster == Step(1)

SpecMaster == Init /\ [][NextMaster]_vars

\* the scheduler runs the dispatcher goroutine and the timer of the context
\* fires: a shutDown that can go on does go on
LiveMaster ==
    /\ SpecMaster
    /\ WF_vars(ShutBegin(1) /\ UNCHANGED tally)
    /\ WF_vars((Tick(1) /\ UNCHANGED tally) \/ ExitStep(1))

\* the scheduler runs the dispatcher goroutine whenever it can go on: a signal
\* in the channel is received, a forkChild that was called returns
LiveDispatcher ==
    /\ LiveMaster
    /\ WF_vars(Receive(1) /\ UNCHANGED tally)
    /\ WF_vars(ForkBeginStep(1))
    /\ WF_vars(ForkExecStep(1))
    /\ WF_vars(ForkReturn(1) /\ UNCHANGED tally)

\* Listener Acquisition alone, over the inputs a starter can give the root: any
\* address, a file table with or without a socket in slot 3, and an
\* OCTOPUS_LISTENER that is absent, not JSON, or a JSON object with members
\* written by forkChild or by hand
AcqFDs == {-1, ChildFD, ChildFD + 1}
AcqTexts ==
    {Garbage, JsonObject(<<>>)}
    \cup {Marshal([Addr |-> a, FD |-> n, Name |-> "tcp"]) : a \in Addrs, n \in AcqFDs}
    \cup {JsonObject(<<StrMember("ADDR", a), NumMember("fd", ChildFD)>>) : a \in Addrs}
    \cup {JsonObject(<<StrMember("addr", a), StrMember("FD", "3")>>) : a \in Addrs}
    \cup {JsonObject(<<StrMember("addr", a), NumMember("FD", ChildFD), NumMember("pid", 7)>>) :
            a \in Addrs}
AcqEnvs == {<<>>} \cup {<<t>> : t \in AcqTexts}
              \cup {<<Garbage, Marshal([Addr |-> a, FD |-> ChildFD, Name |-> "tcp"])>> : a \in Addrs}

InitAcq ==
    /\ InitRest
    /\ \E a \in Addrs, e \in AcqEnvs :
         \/ RootBoot(a, e, FALSE, "", "tcp")
         \/ \E sa \in Addrs, sk \in Kinds : RootBoot(a, e, TRUE, sa, sk)

NextAcq == \E p \in Procs : Start(p) /\ UNCHANGED tally

SpecAcq == InitAcq /\ [][NextAcq]_vars

\* the master with every kind of signal sent to it: hooked, ignored by default,
\* fatal by default
NextSignals ==
    \/ Step(1)
    \/ \E sig \in IgnoredByDefault : Deliver(1, sig) /\ tally' = Sent(1, sig)
    \/ \E sig \in FatalByDefault : Kill(1, sig) /\ tally' = [tally EXCEPT ![1] = NoTally]

SpecSignals == Init /\ [][NextSignals]_vars

\* a process from its start until it enters handleSignals, over the inputs of
\* Listener Acquisition
NextBoot ==
    /\ Start(1) \/ GoServe(1) \/ CloseAfterServe(1) \/ EngineRun(1)
    /\ UNCHANGED tally

SpecBoot == InitAcq /\ [][NextBoot]_vars

\* the handoff: the root runs and is sent signals, each child it starts runs
\* createListener
NextHandoff == NextMaster \/ NextAcq

SpecHandoff == Init /\ [][NextHandoff]_vars

(* ------------------------------ properties ----------------------------- *)
\* the dispatcher of p is processing a signal
Handling(p) == pc[p] \in {"fork", "exec", "forkret", "shutdown", "drain"}

\* C1: while the dispatcher processes a hangup it calls forkChild once; when
\* forkChild has returned an error it calls no shutDown and is back at the
\* channel, still running; when forkChild has returned nil it calls shutDown
\* once and then leaves the loop, whatever shutDown returns.
C1_Hangup ==
    [][\A p \in Procs :
        cur[p] = HUP =>
          /\ Handling(p)
          /\ pc[p] = "fork" => hist[p].nFork = 0 /\ hist[p].nShut = 0
                               /\ pc'[p] \in {"fork", "exec", "forkret"}
          /\ pc[p] = "exec" => hist[p].nFork = 1 /\ hist[p].nShut = 0
                               /\ pc'[p] \in {"exec", "forkret"}
          /\ pc[p] = "forkret" =>
               /\ hist[p].nFork = 1 /\ hist[p].nShut = 0
               /\ pc'[p] # "forkret" =>
                    IF hist[p].forkErr = "nil"
                    THEN pc'[p] = "shutdown" /\ cur'[p] = HUP
                    ELSE pc'[p] = "wait" /\ cur'[p] = NoSig /\ hist'[p].nShut = 0
          /\ pc[p] = "shutdown" => hist[p].nFork = 1 /\ hist[p].nShut = 0
                                   /\ hist[p].forkErr = "nil"
                                   /\ pc'[p] \in {"shutdown", "drain"}
          /\ pc[p] = "drain" => hist[p].nFork = 1 /\ hist[p].nShut = 1
                                /\ pc'[p] \in {"drain", "exited"}
                                /\ (pc'[p] = "exited" => shutErr'[p] \in {"nil", "deadline"})
      ]_vars

\* a hangup whose fork succeeded is in its one shutdown, work still in flight
C1_Witness ==
    \E p \in Procs : cur[p] = HUP /\ pc[p] = "drain" /\ inflight[p]
                     /\ hist[p].nFork = 1 /\ hist[p].nShut = 1

\* C2 as claimed: when forkChild has returned an error while a hangup is
\* processed, the dispatcher goes on to shutDown.
C2_VacatesOnForkError ==
    [][\A p \in Procs :
        (cur[p] = HUP /\ pc[p] = "forkret" /\ hist[p].forkErr # "nil" /\ pc'[p] # "forkret")
          => pc'[p] = "shutdown"
      ]_vars

\* C2 as amended: when forkChild has returned an error, the dispatcher calls no
\* shutDown and is back at the channel with listener and engine as they were,
\* on the hangup path as on the user-signal paths.
C2_ForkErrorStaysRunning ==
    [][\A p \in Procs :
        (pc[p] = "forkret" /\ hist[p].forkErr # "nil" /\ pc'[p] # "forkret")
          => /\ cur[p] \in {HUP, USR1, USR2}
             /\ pc'[p] = "wait"
             /\ hist[p].nShut = 0 /\ hist'[p].nShut = 0
             /\ lopen'[p] = lopen[p] /\ engine'[p] = engine[p]
             /\ inShutdown'[p] = inShutdown[p]
      ]_vars

\* a fork has failed while a hangup is processed
C2_Witness ==
    \E p \in Procs : cur[p] = HUP /\ pc[p] = "forkret" /\ hist[p].forkErr = "startprocess"

\* C3: while the dispatcher processes user-signal-1 or user-signal-2 it calls
\* forkChild once and shutDown never, and afterwards it is back at the channel,
\* running, whatever killMaster is and whatever forkChild returned.
C3_UserSignal ==
    [][\A p \in Procs :
        cur[p] \in {USR1, USR2} =>
          /\ pc[p] \in {"fork", "exec", "forkret"}
          /\ hist[p].nShut = 0 /\ hist'[p].nShut = 0
          /\ hist[p].nFork = (IF pc[p] = "fork" THEN 0 ELSE 1)
          /\ pc[p] = "fork" => pc'[p] \in {"fork", "exec", "forkret"}
          /\ pc[p] = "exec" => pc'[p] \in {"exec", "forkret"}
          /\ pc[p] = "forkret" /\ pc'[p] # "forkret" =>
               pc'[p] = "wait" /\ cur'[p] = NoSig /\ shutErr'[p] = ""
      ]_vars

\* with killMaster, a user-signal-2 fork has succeeded: the terminate signal the
\* master sent itself is queued and the master is still in the loop
C3_Witness ==
    \E p \in Procs : /\ killMaster /\ cur[p] = USR2 /\ pc[p] = "forkret"
                     /\ hist[p].forkErr = "nil" /\ sigChan[p] = <<TERM>>

\* C4: while the dispatcher processes an interrupt or a terminate it calls
\* forkChild never and shutDown once, and then leaves the loop, whatever
\* shutDown returns.
C4_Terminate ==
    [][\A p \in Procs :
        cur[p] \in {INT, TERM} =>
          /\ pc[p] \in {"shutdown", "drain"}
          /\ hist[p].nFork = 0 /\ hist'[p].nFork = 0 /\ ~dupf[p]
          /\ pc[p] = "shutdown" => hist[p].nShut = 0 /\ pc'[p] \in {"shutdown", "drain"}
          /\ pc[p] = "drain" => hist[p].nShut = 1 /\ pc'[p] \in {"drain", "exited"}
                                /\ (pc'[p] = "exited" => shutErr'[p] \in {"nil", "deadline"})
      ]_vars

\* an interrupt is in its one shutdown, one second before the deadline
C4_Witness ==
    \E p \in Procs : cur[p] = INT /\ pc[p] = "drain" /\ inflight[p]
                     /\ elapsed[p] + 1 = DefaultAwaitTimeout

\* C5: the channel is a queue: a signal is put at its tail, the dispatcher takes
\* the head, and only when it is at the channel with no signal in hand; a
\* process is never inside forkChild and shutDown at once; and what the
\* dispatcher does for a fork leaves the engine and its listener alone.
C5_OneAtATimeInOrder ==
    [][\A p \in Procs :
        /\ sigChan'[p] # sigChan[p] =>
             \/ \E sig \in sigHooks : sigChan'[p] = Append(sigChan[p], sig) /\ cur'[p] = cur[p]
             \/ /\ sigChan[p] # <<>> /\ sigChan'[p] = Tail(sigChan[p])
                /\ cur'[p] = Head(sigChan[p])
                /\ pc[p] = "wait" /\ cur[p] = NoSig /\ ~dupf[p]
             \/ pc'[p] = "exited"
        /\ (cur'[p] # cur[p] /\ cur'[p] # NoSig) =>
             /\ cur[p] = NoSig /\ sigChan[p] # <<>>
             /\ cur'[p] = Head(sigChan[p]) /\ sigChan'[p] = Tail(sigChan[p])
        /\ (cur[p] # NoSig) = Handling(p)
        /\ dupf[p] => pc[p] = "exec"
        /\ (InLoop(p) /\ pc'[p] # pc[p] /\ pc'[p] \notin {"drain", "exited"}) =>
             engine'[p] = engine[p] /\ lopen'[p] = lopen[p] /\ inShutdown'[p] = inShutdown[p]
      ]_vars

\* a fork for user-signal-1 is in progress, the terminate delivered after it
\* waits in the channel, and the engine is serving
C5_Witness ==
    \E p \in Procs : /\ cur[p] = USR1 /\ pc[p] = "exec" /\ sigChan[p] = <<TERM>>
                     /\ engine[p] = "serving" /\ lopen[p]

\* the engine of p has been started and has not been stopped: its goroutine
\* exists, it is or will be accepting on the listener, which is open
EngineUp(p) == engine[p] \in {"spawned", "serving"} /\ lopen[p] /\ ~inShutdown[p]

\* C6: from the go statement that starts the engine until the dispatcher
\* begins a shutDown, the engine is up on the acquired listener, for
\* GracefulServe and for GracefulServeTLS.
C6_EngineUpUntilShutdown ==
    \A p \in Procs :
        (Alive(p) /\ engine[p] # "none" /\ pc[p] # "drain") => EngineUp(p)

\* the payload of OCTOPUS_LISTENER parses as a descriptor / and its address is
\* the requested one / and its slot holds an open socket
Parses(p) == EnvSet(p) /\ ~Unmarshal(Getenv(p)).err
Matches(p) == Parses(p) /\ Unmarshal(Getenv(p)).v.Addr = addr[p]
Reconstructs(p) == Matches(p) /\ Slot(files[p], Unmarshal(Getenv(p)).v.FD) \in SockIds

\* createListener has imported the listener from the descriptor's slot without
\* calling newListener / has called newListener once and imported nothing
Imported(p) ==
    /\ pc'[p] = "serve"
    /\ hist'[p].imports = 1 /\ hist'[p].newCalls = 0
    /\ lsock'[p] = Slot(files[p], Unmarshal(Getenv(p)).v.FD) /\ lopen'[p]
FreshOnce(p) ==
    /\ hist'[p].imports = 0 /\ hist'[p].newCalls = 1
    /\ pc'[p] = "serve" => lsock'[p] = p /\ lopen'[p] /\ saddr'[p] = addr[p]
    /\ pc'[p] = "fatal" => lsock'[p] = NoFile

\* C7 as claimed: whenever the payload parses as a descriptor with the requested
\* address the listener is imported and newListener is not called; in every
\* other case newListener is called once.
C7_MatchingAlwaysImports ==
    [][\A p \in Procs :
        (pc[p] = "start" /\ pc'[p] # "start") =>
            IF Matches(p) THEN Imported(p) ELSE FreshOnce(p)
      ]_vars

\* C7 as amended: the listener is imported, and newListener not called, when
\* the payload parses as a descriptor with the requested address and its slot
\* holds an open socket; in every other case (variable absent, payload
\* malformed, address different, slot without a socket) newListener is called
\* once; at most one listener is produced.
C7_Acquisition ==
    [][\A p \in Procs :
        (pc[p] = "start" /\ pc'[p] # "start") =>
            /\ IF Reconstructs(p) THEN Imported(p) ELSE FreshOnce(p)
            /\ hist'[p].imports + hist'[p].newCalls = 1
      ]_vars

\* the root has imported the socket its starter left in slot 3, and has closed
\* the slot
C7_Witness ==
    pc[1] = "serve" /\ hist[1].imports = 1 /\ hist[1].newCalls = 0 /\ lsock[1] = ExtSock
    /\ Slot(files[1], ChildFD) = NoFile

\* C8: when forkChild has started a child, the child is another process and
\* the parent's listener is open with its engine up (the parent has not begun
\* a shutDown: it is still inside the fork).
C8_ParentKeepsListener ==
    \A p \in Procs :
        (pc[p] = "forkret" /\ hist[p].child # 0) =>
            hist[p].child # p /\ EngineUp(p)

\* C9: a forkChild that fails because the listener has no transferable
\* descriptor, the executable is not found or the process cannot be started
\* starts no process, leaves the listener, the engine, the file table and the
\* channel of the parent as they were and holds no duplicate; the dispatcher
\* is then back at the channel.
ForkFailures == {"unsupported", "file", "executable", "startprocess"}
C9_FailedForkChangesNothing ==
    [][\A p \in Procs :
        /\ (pc[p] \in {"fork", "exec"} /\ pc'[p] = "forkret"
            /\ hist'[p].forkErr \in ForkFailures) =>
              /\ \A c \in Procs : pc[c] = "none" => pc'[c] = "none"
              /\ hist'[p].child = 0
              /\ lsock'[p] = lsock[p] /\ lopen'[p] = lopen[p]
              /\ engine'[p] = engine[p] /\ inShutdown'[p] = inShutdown[p]
              /\ files'[p] = files[p] /\ sigChan'[p] = sigChan[p]
              /\ ~dupf'[p]
        /\ (pc[p] = "forkret" /\ hist[p].forkErr \in ForkFailures /\ pc'[p] # "forkret") =>
              pc'[p] = "wait" /\ lopen'[p] = lopen[p] /\ engine'[p] = engine[p]
      ]_vars

\* os.StartProcess has failed; the parent's engine is serving on its listener
C9_Witness ==
    \E p \in Procs : /\ pc[p] = "forkret" /\ hist[p].forkErr = "startprocess"
                     /\ engine[p] = "serving" /\ lopen[p] /\ ~dupf[p]

\* C10: a shutDown that is called returns: with nil when no connection is in
\* flight before the deadline, with the deadline error when the deadline passes
\* with connections in flight; the process has then left the loop for good and
\* has called shutDown once.
C10_ShutdownReturns ==
    /\ \A p \in Procs : (pc[p] = "shutdown") ~> (pc[p] = "exited")
    /\ [][\A p \in Procs :
            /\ (pc[p] = "drain" /\ pc'[p] # "drain") =>
                 /\ pc'[p] = "exited" /\ hist[p].nShut = 1
                 /\ IF inflight[p]
                    THEN shutErr'[p] = "deadline" /\ elapsed[p] + 1 = DefaultAwaitTimeout
                    ELSE shutErr'[p] = "nil" /\ elapsed[p] < DefaultAwaitTimeout
            /\ pc[p] = "exited" => pc'[p] = "exited" /\ shutErr'[p] = shutErr[p]
        ]_vars

\* a shutDown has returned the deadline error and the process has left the loop
C10_Witness == \E p \in Procs : pc[p] = "exited" /\ shutErr[p] = "deadline"

\* user-signal-1 deliveries to p the dispatcher has not yet called forkChild for:
\* those in the channel and the one in hand before the call
PendingUsr1(p) ==
    Cardinality({i \in DOMAIN sigChan[p] : sigChan[p][i] = USR1})
    + (IF cur[p] = USR1 /\ pc[p] = "fork" THEN 1 ELSE 0)

\* C11: a process that the operator has sent user-signal-1 n times and no other
\* signal has called forkChild once for each of them that it has taken from
\* the channel: when none is pending it has made exactly n fork attempts,
\* whatever killMaster is and whether the forks succeeded.
C11_OneForkPerUsr1 ==
    \A p \in Procs :
        (Alive(p) /\ ~tally[p].other) =>
            /\ tally[p].forks + PendingUsr1(p) = tally[p].usr1
            /\ PendingUsr1(p) = 0 => tally[p].forks = tally[p].usr1

\* with killMaster, two user-signal-1 deliveries have led to two forks, both
\* successful: two terminates the master sent itself wait in the channel
C11_Witness ==
    /\ killMaster /\ tally[1].usr1 = 2 /\ tally[1].forks = 2 /\ ~tally[1].other
    /\ sigChan[1] = <<TERM, TERM>> /\ pc[1] = "wait"

\* forkChild of p has started child c in this step
Forked(p, c) == pc[c] = "none" /\ pc'[c] = "start" /\ pc[p] = "exec" /\ hist'[p].child = c

\* the environment of c names, first, the descriptor a forkChild of a parent
\* with c's address writes for the socket in slot 3 of c's file table
HandedOver(c) ==
    /\ Len(files[c]) = ChildFD + 1 /\ files[c][ChildFD + 1] \in SockIds
    /\ EnvSet(c)
    /\ Getenv(c) = Marshal([Addr |-> addr[c], FD |-> ChildFD,
                            Name |-> skind[files[c][ChildFD + 1]]])

\* C12: the descriptor forkChild serializes parses back to itself: the
\* parent's address, FD 3 and the file's name; the child's file table has the
\* parent's socket in slot 3, after the three standard streams; a child that
\* reads that descriptor and has the parent's address has been handed the
\* socket over, and createListener in such a child gets its listener from
\* slot 3, on the parent's socket, and makes no new one.
C12_HandoffRoundTrip ==
    [][\A c \in Procs :
        /\ \A p \in Procs : Forked(p, c) =>
             LET rec == Marshal(ChildDescriptor(p))
             IN  /\ Unmarshal(rec) = [err |-> FALSE, v |-> ChildDescriptor(p)]
                 /\ ChildDescriptor(p).Addr = addr[p] /\ ChildDescriptor(p).FD = ChildFD
                 /\ files'[c] = <<Stdin, Stdout, Stderr, lsock[p]>>
                 /\ Slot(files'[c], Unmarshal(rec).v.FD) = lsock[p]
                 /\ rec \in {env'[c][i] : i \in DOMAIN env'[c]}
                 /\ (Head(env'[c]) = rec /\ addr'[c] = addr[p]) => HandedOver(c)'
        /\ (pc[c] = "start" /\ pc'[c] # "start" /\ HandedOver(c)) =>
             /\ Imported(c) /\ lsock'[c] = files[c][ChildFD + 1]
             /\ \A s \in SockIds : saddr'[s] = saddr[s]
      ]_vars

\* a child has imported the socket of its parent, which is serving on it too
C12_Witness ==
    \E c \in Procs : /\ c # 1 /\ pc[c] = "serve" /\ hist[c].imports = 1
                     /\ hist[c].newCalls = 0
                     /\ lsock[c] = lsock[1] /\ lopen[c] /\ EngineUp(1)
                     /\ Slot(files[c], ChildFD) = NoFile

\* C17: the environment forkChild gives a child carries one descriptor record,
\* the one this forkChild wrote, and it is the record the child's
\* createListener reads.
C17_OneRecordPerHandoff ==
    [][\A p, c \in Procs :
        Forked(p, c) =>
            /\ Len(env'[c]) = 1
            /\ Getenv(c)' = Marshal(ChildDescriptor(p))
      ]_vars

\* C13: createListener ends the process exactly when it has acquired no
\* listener: nothing usable was inherited and newListener, called once, failed;
\* the process then never starts its engine nor enters handleSignals. With an
\* unusable descriptor (not parsed, other address, no socket in its slot) and a
\* successful bind the process goes on with the fresh listener.
C13_FatalOnlyWithoutListener ==
    [][\A p \in Procs :
        /\ (pc[p] = "start" /\ pc'[p] # "start") =>
             /\ pc'[p] \in {"serve", "fatal"}
             /\ (pc'[p] = "fatal") = (lsock'[p] = NoFile)
             /\ pc'[p] = "fatal" =>
                   /\ ~Reconstructs(p)
                   /\ hist'[p].newCalls = 1 /\ hist'[p].imports = 0
                   /\ \A s \in SockIds : saddr'[s] = saddr[s]
             /\ (pc'[p] = "serve" /\ ~Reconstructs(p)) =>
                   lsock'[p] = p /\ lopen'[p] /\ saddr'[p] = addr[p]
             /\ (EnvSet(p) /\ ~Reconstructs(p)) =>
                   hist'[p].impErr \in {"unmarshal", "addr", "newfile", "filelistener"}
        /\ pc[p] = "fatal" =>
             /\ pc'[p] = "fatal" /\ engine'[p] = "none" /\ ~InLoop(p)
             /\ sigChan'[p] = <<>> /\ cur'[p] = NoSig
        /\ (engine[p] = "none" /\ engine'[p] # "none") =>
             pc[p] = "serve" /\ lsock[p] # NoFile /\ lopen[p]
      ]_vars

\* the payload did not parse and the bind failed: the process is gone
C13_Witness ==
    pc[1] = "fatal" /\ hist[1].impErr = "unmarshal" /\ hist[1].newCalls = 1
    /\ engine[1] = "none" /\ lsock[1] = NoFile

\* the operator has sent a signal in this step and none of the five hooked
\* ones was put on a channel: the signal is another one
OtherSignalSent ==
    /\ nsent' # nsent
    /\ \A p \in Procs, sig \in sigHooks : sigChan'[p] # Append(sigChan[p], sig)

SelfTermQueued ==
    [][\A p \in Procs :
        /\ (~tally[p].selfTerm /\ tally'[p].selfTerm) =>
              /\ sigChan'[p] = Append(sigChan[p], TERM)
              /\ pc'[p] = "forkret" /\ cur'[p] = cur[p]
              /\ engine'[p] = engine[p] /\ lopen'[p] = lopen[p]
              /\ inShutdown'[p] = inShutdown[p]
        /\ (tally[p].selfTerm /\ pc[p] = "shutdown") => hist[p].nShut = 0
        /\ (tally[p].selfTerm /\ pc[p] = "drain") =>
              hist[p].nShut = 1 /\ pc'[p] \in {"drain", "exited"}
        /\ (tally[p].selfTerm /\ ~Alive(p)') =>
              pc[p] = "drain" /\ pc'[p] = "exited" /\ shutErr'[p] \in {"nil", "deadline"}
      ]_vars
SelfTermEnds == \A p \in Procs : tally[p].selfTerm ~> (pc[p] = "exited")

C16_KillFailureKeepsBoth ==
    [][\A p \in Procs :
        /\ (pc[p] = "exec" /\ hist'[p].forkErr = "kill") =>
              /\ killMaster /\ pc'[p] = "forkret"
              /\ hist'[p].child \in Procs \ {p}
              /\ pc[hist'[p].child] = "none" /\ pc'[hist'[p].child] = "start"
              /\ \E i \in DOMAIN files'[hist'[p].child] :
                    files'[hist'[p].child][i] = lsock[p]
              /\ sigChan'[p] = sigChan[p]
        /\ (pc[p] = "forkret" /\ hist[p].forkErr = "kill" /\ pc'[p] # "forkret") =>
              /\ cur[p] \in {HUP, USR1, USR2}
              /\ pc'[p] = "wait" /\ cur'[p] = NoSig
              /\ hist[p].nShut = 0 /\ hist'[p].nShut = 0
              /\ engine'[p] = engine[p] /\ lopen'[p] = lopen[p]
              /\ inShutdown'[p] = inShutdown[p]
              /\ pc[hist[p].child] = "start" /\ pc'[hist[p].child] = "start"
      ]_vars

\* a hangup's fork has started a child and failed to kill the master
C16_Witness ==
    \E p \in Procs : /\ cur[p] = HUP /\ pc[p] = "forkret" /\ hist[p].forkErr = "kill"
                     /\ hist[p].child # 0 /\ pc[hist[p].child] = "start"

\* q is p's channel with nothing taken from it: what it held, then what arrived
NothingTaken(p) ==
    /\ Len(sigChan'[p]) >= Len(sigChan[p])
    /\ SubSeq(sigChan'[p], 1, Len(sigChan[p])) = sigChan[p]

\* C18: a process calls shutDown at most once; once it has, it takes no signal
\* from the channel and calls forkChild no more, whatever is pending, and the
\* next thing it does is leave the loop and end; it leaves the loop in no other
\* way; a process that has ended stays so.
C18_TerminalAfterOneShutdown ==
    [][\A p \in Procs :
        /\ hist[p].nShut <= 1 /\ hist'[p].nShut <= 1
        /\ hist'[p].nShut > hist[p].nShut => pc[p] = "shutdown" /\ pc'[p] = "drain"
        /\ pc[p] = "drain" =>
              /\ hist[p].nShut = 1
              /\ pc'[p] \in {"drain", "exited"}
              /\ \A c \in Procs : pc[c] = "none" => pc'[c] = "none"
              /\ pc'[p] = "drain" =>
                    /\ NothingTaken(p) /\ cur'[p] = cur[p]
                    /\ tally'[p].forks = tally[p].forks /\ hist'[p].nFork = hist[p].nFork
                    /\ ~dupf'[p]
        /\ (InLoop(p) /\ ~InLoop(p)') =>
              pc[p] = "drain" /\ pc'[p] = "exited" /\ hist[p].nShut = 1
        /\ pc[p] = "exited" =>
              /\ pc'[p] = "exited" /\ shutErr'[p] = shutErr[p]
              /\ sigChan'[p] = <<>> /\ cur'[p] = NoSig /\ engine'[p] = "none"
              /\ tally'[p] = NoTally /\ hist'[p] = NoHist
      ]_vars

\* with killMaster, a hangup's fork has succeeded and its shutDown is under
\* way: the terminate the master sent itself is pending and will stay so
C18_Witness ==
    /\ killMaster /\ cur[1] = HUP /\ pc[1] = "drain" /\ hist[1].nShut = 1
    /\ sigChan[1] = <<TERM>> /\ inflight[1]

\* p holds an open descriptor of socket s that is not the duplicate forkChild
\* makes and closes: its listener or a slot of its file table
Keeps(p, s) ==
    \/ lsock[p] = s /\ lopen[p]
    \/ \E i \in DOMAIN files[p] : files[p][i] = s

\* C19: a process that is in its dispatcher loop has an open descriptor of a
\* listening socket (the duplicate inside forkChild aside) only as the
\* listener its engine was started on: no other socket is left open in its
\* file table, such as the inherited one in slot 3.
C19_NoUnservedSocket ==
    \A p \in Procs, s \in SockIds :
        (InLoop(p) /\ Keeps(p, s)) =>
            lsock[p] = s /\ engine[p] \in {"spawned", "serving"}

====
